---- MODULE Spec2Model ----
(***************************************************************************)
(* Model of bin/split-silo-database (the silo table partitioner: table     *)
(* classification, OrganizationMapping rewrite, dump/restore driver) and   *)
(* of the keyboard handler of the compactSelect GridList component.        *)
(***************************************************************************)
EXTENDS Integers, Sequences, FiniteSets, TLC

VARIABLES
    registry,               \* apps.get_models(): sequence of models
    database,               \* --database
    reset,                  \* --reset
    verbose,                \* --verbose
    legacy_region_name,     \* --legacy-region-name
    SENTRY_MONOLITH_REGION, \* settings.SENTRY_MONOLITH_REGION
    USE_OLD_DEVSERVICES,    \* os.environ.get("USE_OLD_DEVSERVICES")
    org_mappings,           \* OrganizationMapping rows: sequence of region_name
    om_before,              \* the OrganizationMapping rows when the run started
    updates,                \* UPDATE queries issued through the ORM
    pc,                     \* position of main
    idx,                    \* position of the for loop over the registry
    control_tables,
    region_tables,
    frame,                  \* the running split_database call, or NoFrame
    calls,                  \* container.exec_run calls made so far, with exit codes
    steps,                  \* driver steps of main that have returned
    stdout,                 \* click.echo output
    dbs,                    \* databases of the postgres container
    files,                  \* dump files in /tmp of the container
    key_events              \* keyboard events handled by GridList.onKeyDown

\* what the run is given and never assigns
inputs == <<registry, database, reset, verbose, legacy_region_name,
            SENTRY_MONOLITH_REGION, USE_OLD_DEVSERVICES, om_before>>

vars == <<inputs, org_mappings, updates, pc, idx, control_tables, region_tables,
          frame, calls, steps, stdout, dbs, files, key_events>>

----
(* Bounds *)

\* longest registry in the classification runs
MaxModels == 2
\* longest registry in the full runs of main
MaxRunModels == 1
\* most OrganizationMapping rows in the rewrite runs
MaxMappings == 3
\* most OrganizationMapping rows in the full runs of main
MaxRunMappings == 1
\* most keyboard events delivered to the grid list
MaxKeyEvents == 2

----
(* Helpers *)

Range(s) == {s[i] : i \in 1..Len(s)}

SeqsUpTo(S, n) == UNION {[1..k -> S] : k \in 0..n}

Count(s, x) == Cardinality({i \in 1..Len(s) : s[i] = x})

NoDuplicates(s) == \A i, j \in 1..Len(s) : s[i] = s[j] => i = j

----
(* Table classification: main, lines 118-140 *)

CONTROL == "CONTROL"
REGION == "REGION"

\* getattr(model._meta, "silo_limit", None): the empty set stands for None,
\* {modes} for a SiloLimit whose modes are `modes`
None == {}
SiloLimit(modes) == {modes}
Modes(silo_limit) == CHOOSE m \in silo_limit : TRUE

RegionSeed == <<"django_migrations", "django_content_type">>

ControlSeed == <<"django_migrations", "django_admin_log", "django_content_type",
                 "django_site", "django_session", "auth_user", "auth_group",
                 "auth_permission", "auth_group_permissions",
                 "auth_user_groups", "auth_user_user_permissions">>

\* db_table values of the registered models: a table seeded into both lists,
\* one seeded into control only, one that is not seeded
ModelTables == {"django_content_type", "auth_user", "sentry_organization"}

SiloLimits == {None} \cup {SiloLimit(m) : m \in {{CONTROL}, {REGION}, {CONTROL, REGION}}}

Models == [db_table : ModelTables, silo_limit : SiloLimits]

TableUniverse == Range(ControlSeed) \cup Range(RegionSeed) \cup ModelTables

\* variant: a model without silo_limit is not skipped
ControlAppendNoSkip(tables, model) ==
    IF model.silo_limit = None THEN Append(tables, model.db_table)
    ELSE IF CONTROL \in Modes(model.silo_limit)
         THEN Append(tables, model.db_table)
         ELSE tables

\* variant: a table already in the list is not appended again
ControlAppendDedup(tables, model) ==
    IF model.silo_limit = None THEN tables
    ELSE IF CONTROL \in Modes(model.silo_limit) /\ model.db_table \notin Range(tables)
         THEN Append(tables, model.db_table)
         ELSE tables

\* variant: every model with a silo_limit goes to the region list
RegionAppendAnyMode(tables, model) ==
    IF model.silo_limit = None THEN tables
    ELSE Append(tables, model.db_table)

\* one iteration of the loop body, lines 133-138
ControlAppend(tables, model) ==
    IF model.silo_limit = None THEN tables
    ELSE IF CONTROL \in Modes(model.silo_limit)
         THEN Append(tables, model.db_table)
         ELSE tables

\* one iteration of the loop body, lines 133-136 and 139-140
RegionAppend(tables, model) ==
    IF model.silo_limit = None THEN tables
    ELSE IF REGION \in Modes(model.silo_limit)
         THEN Append(tables, model.db_table)
         ELSE tables

\* lines 118-131: the two lists start from the fixed framework tables
SeedTables ==
    /\ pc = "start"
    /\ region_tables' = RegionSeed
    /\ control_tables' = ControlSeed
    /\ idx' = 1
    /\ pc' = IF Len(registry) = 0 THEN "revise" ELSE "scan"
    /\ steps' = IF Len(registry) = 0 THEN Append(steps, <<"classify">>) ELSE steps
    /\ UNCHANGED <<inputs, org_mappings, updates, frame, calls, stdout, dbs, files,
                   key_events>>

\* lines 132-140: one iteration of `for model in apps.get_models()`
ScanModel ==
    /\ pc = "scan"
    /\ idx <= Len(registry)
    /\ LET model == registry[idx] IN
        /\ control_tables' = ControlAppend(control_tables, model)
        /\ region_tables' = RegionAppend(region_tables, model)
        /\ stdout' = IF model.silo_limit = None
                     THEN Append(stdout, <<"> Could not find silo assignment for", model.db_table>>)
                     ELSE stdout
    /\ idx' = idx + 1
    /\ pc' = IF idx = Len(registry) THEN "revise" ELSE "scan"
    /\ steps' = IF idx = Len(registry) THEN Append(steps, <<"classify">>) ELSE steps
    /\ UNCHANGED <<inputs, org_mappings, updates, frame, calls, dbs, files, key_events>>

----
(* revise_organization_mappings, lines 79-90 *)

\* OrganizationMapping.objects.filter(region_name=...): the matching rows
Filter(rows, region_name) == {i \in 1..Len(rows) : rows[i] = region_name}

\* qs.update(region_name=...): UPDATE ... SET region_name WHERE the filter holds
Update(rows, region_name, value) ==
    [i \in 1..Len(rows) |-> IF i \in Filter(rows, region_name) THEN value ELSE rows[i]]

\* variant: the update is issued without comparing the two region names
revise_always_updates(rows, legacy, monolith) ==
    [rows |-> Update(rows, legacy, monolith),
     updates |-> <<[where |-> legacy, set |-> monolith]>>,
     echo |-> <<">", Cardinality(Filter(rows, legacy)),
                "OrganizationMapping record(s) have been updated from",
                legacy, "to", monolith>>]

\* variant: the rows are counted after the update
revise_counts_after_update(rows, legacy, monolith) ==
    IF monolith = legacy
    THEN [rows |-> rows,
          updates |-> <<>>,
          echo |-> <<"> No OrganizationMapping have been modified.">>]
    ELSE [rows |-> Update(rows, legacy, monolith),
          updates |-> <<[where |-> legacy, set |-> monolith]>>,
          echo |-> <<">", Cardinality(Filter(Update(rows, legacy, monolith), legacy)),
                     "OrganizationMapping record(s) have been updated from",
                     legacy, "to", monolith>>]

\* the rows, the queries issued and the echoed line after the call
revise_organization_mappings(rows, legacy, monolith) ==
    IF monolith = legacy
    THEN [rows |-> rows,
          updates |-> <<>>,
          echo |-> <<"> No OrganizationMapping have been modified.">>]
    ELSE LET qs == Filter(rows, legacy)
             record_count == Cardinality(qs)
         IN [rows |-> Update(rows, legacy, monolith),
             updates |-> <<[where |-> legacy, set |-> monolith]>>,
             echo |-> <<">", record_count, "OrganizationMapping record(s) have been updated from",
                        legacy, "to", monolith>>]

\* line 142
Revise ==
    /\ pc = "revise"
    /\ LET r == revise_organization_mappings(org_mappings, legacy_region_name,
                                             SENTRY_MONOLITH_REGION) IN
        /\ org_mappings' = r.rows
        /\ updates' = updates \o r.updates
        /\ stdout' = Append(stdout, r.echo)
    /\ steps' = Append(steps, <<"revise_organization_mappings", legacy_region_name>>)
    /\ pc' = "split_control"
    /\ UNCHANGED <<inputs, idx, control_tables, region_tables, frame, calls, dbs,
                   files, key_events>>

----
(* split_database, lines 27-76, and exec_run, lines 18-24 *)

RECURSIVE TableArgs(_)
\* lines 30-31: command.extend(["-t", table]) for each table
TableArgs(tables) ==
    IF tables = <<>> THEN <<>>
    ELSE <<"-t", Head(tables)>> \o TableArgs(Tail(tables))

\* f"/tmp/{destination}-tables.sql"
DumpPath(destination) == <<"/tmp/", destination, "-tables.sql">>

\* variant: the first table of the list gets no -t argument
DumpCommandSkipsFirst(tables, source, destination) ==
    <<"pg_dump", "-U", "postgres", "-d", source, "--clean">>
      \o TableArgs(IF tables = <<>> THEN tables ELSE Tail(tables))
      \o <<">", DumpPath(destination)>>

\* lines 29-32
DumpCommand(tables, source, destination) ==
    <<"pg_dump", "-U", "postgres", "-d", source, "--clean">>
      \o TableArgs(tables) \o <<">", DumpPath(destination)>>

\* line 48
DropdbCommand(destination) == <<"dropdb", "-U", "postgres", "--if-exists", destination>>

\* line 49
CreatedbCommand(destination) == <<"createdb", "-U", "postgres", destination>>

\* lines 51-58
CitextCommand(destination) ==
    <<"psql", "-U", "postgres", destination, "-c", "'CREATE EXTENSION IF NOT EXISTS citext'">>

\* lines 66-73
ImportCommand(destination) ==
    <<"psql", "-U", "postgres", destination, "<", DumpPath(destination)>>

\* lines 35-39
PostgresContainer(use_old_devservices) ==
    IF use_old_devservices # "1" THEN "sentry-postgres-1" ELSE "sentry_postgres"

ExitCodes == {0, 1}

\* lines 21-23: what exec_run echoes for an exit code
ExecRunEcho(exit_code, command) ==
    IF exit_code # 0
    THEN <<<<"Container operation Failed!">>,
           <<"Container operation failed with", command[1]>>>>
    ELSE <<>>

\* variant: the destination is created before it is dropped
AfterStepCreateFirst(at, do_reset) ==
    CASE at = "dump" -> IF do_reset THEN "createdb" ELSE "citext"
      [] at = "createdb" -> "dropdb"
      [] at = "dropdb" -> "citext"
      [] at = "citext" -> "import"
      [] at = "import" -> "return"

\* variant: the destination is dropped and recreated whatever reset is
AfterStepAlwaysResets(at, do_reset) ==
    CASE at = "dump" -> "dropdb"
      [] at = "dropdb" -> "createdb"
      [] at = "createdb" -> "citext"
      [] at = "citext" -> "import"
      [] at = "import" -> "return"

\* where a split_database call continues after the step it is at
AfterStep(at, do_reset) ==
    CASE at = "dump" -> IF do_reset THEN "dropdb" ELSE "citext"
      [] at = "dropdb" -> "createdb"
      [] at = "createdb" -> "citext"
      [] at = "citext" -> "import"
      [] at = "import" -> "return"

NoFrame == [at |-> "none"]

Absent == {"<absent>"}
NoFile == {"<no file>"}

\* variant: the region split is made first
SplitArgsRegionFirst(p) ==
    IF p = "split_control"
    THEN [tables |-> region_tables, source |-> database, destination |-> "region",
          reset |-> reset, verbose |-> verbose]
    ELSE [tables |-> control_tables, source |-> database, destination |-> "control",
          reset |-> reset, verbose |-> verbose]

\* the two calls of main, lines 143-144
SplitArgs(p) ==
    IF p = "split_control"
    THEN [tables |-> control_tables, source |-> database, destination |-> "control",
          reset |-> reset, verbose |-> verbose]
    ELSE [tables |-> region_tables, source |-> database, destination |-> "region",
          reset |-> reset, verbose |-> verbose]

\* the frame of a split_database call that has reached its first exec_run
Enter(a) ==
    [at |-> "dump", tables |-> a.tables, source |-> a.source,
     destination |-> a.destination, reset |-> a.reset, verbose |-> a.verbose,
     container |-> PostgresContainer(USE_OLD_DEVSERVICES)]

\* effects of the commands on the container's databases and files
DumpCanSucceed(db, tables) == db # Absent /\ Range(tables) \cap db # {}
DumpOutput(db, tables, exit_code) == IF exit_code = 0 THEN Range(tables) \cap db ELSE {}
CreatedbCanSucceed(db) == db = Absent
PsqlCanConnect(db) == db # Absent
Restore(db, file) == db \cup file

\* variant: a non-zero exit code raises, which ends the run
ExecRunRaises(f, command, exit_code, echo, next) ==
    /\ calls' = Append(calls, [container |-> f.container, command |-> command,
                               exit_code |-> exit_code,
                               args |-> [tables |-> f.tables, source |-> f.source,
                                         destination |-> f.destination,
                                         reset |-> f.reset]])
    /\ stdout' = stdout \o echo \o ExecRunEcho(exit_code, command)
    /\ IF exit_code # 0
       THEN /\ frame' = NoFrame
            /\ pc' = "done"
            /\ UNCHANGED steps
       ELSE IF next = "return"
       THEN /\ frame' = NoFrame
            /\ steps' = Append(steps, <<"split_database", f.tables, f.source,
                                        f.destination>>)
            /\ pc' = IF pc = "split_control" THEN "split_region" ELSE "done"
       ELSE /\ frame' = [f EXCEPT !.at = next]
            /\ UNCHANGED <<steps, pc>>

\* exec_run(postgres, command): the call is recorded, a failure is echoed,
\* and the caller goes on to `next` whatever the exit code is
ExecRun(f, command, exit_code, echo, next) ==
    /\ calls' = Append(calls, [container |-> f.container, command |-> command,
                               exit_code |-> exit_code,
                               args |-> [tables |-> f.tables, source |-> f.source,
                                         destination |-> f.destination,
                                         reset |-> f.reset]])
    /\ stdout' = stdout \o echo \o ExecRunEcho(exit_code, command)
    /\ IF next = "return"
       THEN /\ frame' = NoFrame
            /\ steps' = Append(steps, <<"split_database", f.tables, f.source,
                                        f.destination>>)
            /\ pc' = IF pc = "split_control" THEN "split_region" ELSE "done"
       ELSE /\ frame' = [f EXCEPT !.at = next]
            /\ UNCHANGED <<steps, pc>>

\* lines 27-44: entry of split_database up to the return of the pg_dump step
ExecDump ==
    /\ pc \in {"split_control", "split_region"}
    /\ frame = NoFrame
    /\ LET f == Enter(SplitArgs(pc))
           command == DumpCommand(f.tables, f.source, f.destination)
       IN \E exit_code \in ExitCodes :
            /\ exit_code = 0 => DumpCanSucceed(dbs[f.source], f.tables)
            /\ files' = [files EXCEPT ![f.destination] =
                            DumpOutput(dbs[f.source], f.tables, exit_code)]
            /\ ExecRun(f, command, exit_code,
                       <<<<">> Dumping tables from", f.source>>>>
                         \o (IF f.verbose THEN <<<<">> Running", command>>>> ELSE <<>>),
                       AfterStep("dump", f.reset))
    /\ UNCHANGED <<inputs, org_mappings, updates, idx, control_tables, region_tables,
                   dbs, key_events>>

\* lines 46-48
ExecDropdb ==
    /\ frame # NoFrame
    /\ frame.at = "dropdb"
    /\ \E exit_code \in ExitCodes :
        /\ dbs' = IF exit_code = 0 THEN [dbs EXCEPT ![frame.destination] = Absent]
                  ELSE dbs
        /\ ExecRun(frame, DropdbCommand(frame.destination), exit_code,
                   <<<<">> Dropping existing", frame.destination>>>>,
                   AfterStep("dropdb", frame.reset))
    /\ UNCHANGED <<inputs, org_mappings, updates, idx, control_tables, region_tables,
                   files, key_events>>

\* line 49
ExecCreatedb ==
    /\ frame # NoFrame
    /\ frame.at = "createdb"
    /\ \E exit_code \in ExitCodes :
        /\ exit_code = 0 => CreatedbCanSucceed(dbs[frame.destination])
        /\ dbs' = IF exit_code = 0 THEN [dbs EXCEPT ![frame.destination] = {}]
                  ELSE dbs
        /\ ExecRun(frame, CreatedbCommand(frame.destination), exit_code, <<>>,
                   AfterStep("createdb", frame.reset))
    /\ UNCHANGED <<inputs, org_mappings, updates, idx, control_tables, region_tables,
                   files, key_events>>

\* lines 51-62
ExecCitext ==
    /\ frame # NoFrame
    /\ frame.at = "citext"
    /\ LET command == CitextCommand(frame.destination) IN
       \E exit_code \in ExitCodes :
        /\ exit_code = 0 => PsqlCanConnect(dbs[frame.destination])
        /\ ExecRun(frame, command, exit_code,
                   IF frame.verbose THEN <<<<">> RUNNING:", command>>>> ELSE <<>>,
                   AfterStep("citext", frame.reset))
    /\ UNCHANGED <<inputs, org_mappings, updates, idx, control_tables, region_tables,
                   dbs, files, key_events>>

\* lines 64-76
ExecImport ==
    /\ frame # NoFrame
    /\ frame.at = "import"
    /\ LET command == ImportCommand(frame.destination) IN
       \E exit_code \in ExitCodes :
        /\ exit_code = 0 => /\ PsqlCanConnect(dbs[frame.destination])
                             /\ files[frame.destination] # NoFile
        /\ dbs' = IF exit_code = 0
                  THEN [dbs EXCEPT ![frame.destination] =
                            Restore(dbs[frame.destination], files[frame.destination])]
                  ELSE dbs
        /\ ExecRun(frame, command, exit_code,
                   <<<<">> Building database from dump file", frame.destination>>>>
                     \o (IF frame.verbose THEN <<<<">> Running", command>>>> ELSE <<>>),
                   AfterStep("import", frame.reset))
    /\ UNCHANGED <<inputs, org_mappings, updates, idx, control_tables, region_tables,
                   files, key_events>>

----
(* GridList.onKeyDown, gridList/index.tsx lines 92-98 *)

Keys == {"Escape", "ArrowDown", "ArrowUp", "Enter"}

\* what keyDownHandler?.(e) evaluates to: the handler's boolean, or undefined
\* when no handler was passed
HandlerResults == {"true", "false", "undefined"}

Truthy(v) == v = "true"

\* variant: the key is not compared with 'Escape'
CallsGridOnKeyDownAnyKey(continueCallback, key, has_grid_handler) ==
    /\ Truthy(continueCallback)
    /\ has_grid_handler

\* line 95-96: whether gridProps.onKeyDown is run for the event
CallsGridOnKeyDown(continueCallback, key, has_grid_handler) ==
    /\ Truthy(continueCallback)
    /\ key # "Escape"
    /\ has_grid_handler

onKeyDown ==
    /\ Len(key_events) < MaxKeyEvents
    /\ \E key \in Keys, continueCallback \in HandlerResults, has_grid_handler \in BOOLEAN :
        key_events' = Append(key_events,
            [key |-> key,
             keyDownHandler |-> IF continueCallback = "undefined" THEN "absent" ELSE "called",
             continueCallback |-> continueCallback,
             gridHandler |-> has_grid_handler,
             gridOnKeyDown |-> IF CallsGridOnKeyDown(continueCallback, key, has_grid_handler)
                               THEN "called" ELSE "not called"])
    /\ UNCHANGED <<inputs, org_mappings, updates, pc, idx, control_tables,
                   region_tables, frame, calls, steps, stdout, dbs, files>>

----
(* Initial states and specifications *)

Regions == {"--monolith--", "old-region", "us"}

DbNames == {"sentry", "control", "region"}

\* the database the ORM of the running application is connected to
DjangoDatabase == "sentry"

InitRun(registries, databases, flags, legacies, monoliths, mappings, envs, dests) ==
    /\ registry \in registries
    /\ database \in databases
    /\ reset \in flags
    /\ verbose \in flags
    /\ legacy_region_name \in legacies
    /\ SENTRY_MONOLITH_REGION \in monoliths
    /\ USE_OLD_DEVSERVICES \in envs
    /\ org_mappings \in mappings
    /\ om_before = org_mappings
    /\ updates = <<>>
    /\ pc = "start"
    /\ idx = 0
    /\ control_tables = <<>>
    /\ region_tables = <<>>
    /\ frame = NoFrame
    /\ calls = <<>>
    /\ steps = <<>>
    /\ stdout = <<>>
    /\ \E dest \in dests :
         dbs = [n \in DbNames |-> IF n \in {"sentry", database} THEN TableUniverse ELSE dest]
    /\ files = [d \in {"control", "region"} |-> NoFile]
    /\ key_events = <<>>

\* the models of the registry in the whole runs of main
RunModels ==
    {m \in Models : /\ m.db_table \in {"auth_user", "sentry_organization"}
                    /\ m.silo_limit \in {None, SiloLimit({CONTROL}), SiloLimit({REGION})}}

\* a whole run of main
Init ==
    InitRun(SeqsUpTo(RunModels, MaxRunModels), {"sentry", "control"}, BOOLEAN,
            {"--monolith--"}, {"--monolith--", "us"},
            SeqsUpTo({"--monolith--"}, MaxRunMappings), {"unset"},
            {Absent, {}})

Next ==
    \/ SeedTables
    \/ ScanModel
    \/ Revise
    \/ ExecDump
    \/ ExecDropdb
    \/ ExecCreatedb
    \/ ExecCitext
    \/ ExecImport

Spec == Init /\ [][Next]_vars

\* the table classification of main, for any registry
InitClassify ==
    InitRun(SeqsUpTo(Models, MaxModels), {"sentry"}, {FALSE}, {"--monolith--"},
            {"--monolith--"}, {<<>>}, {"unset"}, {{}})

NextClassify ==
    \/ SeedTables
    \/ ScanModel

SpecClassify == InitClassify /\ [][NextClassify]_vars

\* main up to the return of revise_organization_mappings, for any mapping table
InitRevise ==
    InitRun(SeqsUpTo(RunModels, 1), {"sentry"}, {FALSE}, Regions, Regions,
            SeqsUpTo(Regions, MaxMappings), {"unset", "1"}, {{}})

NextRevise ==
    \/ SeedTables
    \/ ScanModel
    \/ Revise

SpecRevise == InitRevise /\ [][NextRevise]_vars

\* keyboard events delivered to a mounted GridList
InitGrid ==
    InitRun({<<>>}, {"sentry"}, {FALSE}, {"--monolith--"}, {"--monolith--"},
            {<<>>}, {"unset"}, {{}})

NextGrid == onKeyDown

SpecGrid == InitGrid /\ [][NextGrid]_vars

----
(* Properties of the table classification (SpecClassify) *)

ScanFinished == pc \notin {"start", "scan"}

HasMode(model, mode) == model.silo_limit # None /\ mode \in Modes(model.silo_limit)

ControlOnly(model) == HasMode(model, CONTROL) /\ ~HasMode(model, REGION)

\* the models of the registry that carry `mode` and are backed by `table`
Carriers(table, mode) ==
    {j \in 1..Len(registry) : registry[j].db_table = table /\ HasMode(registry[j], mode)}

\* C1 as stated: after the scan, the table of every CONTROL-only model is in
\* control_tables and not in region_tables.
C1_ControlOnlyNotInRegion ==
    ScanFinished =>
        \A i \in 1..Len(registry) :
            ControlOnly(registry[i]) =>
                /\ registry[i].db_table \in Range(control_tables)
                /\ registry[i].db_table \notin Range(region_tables)

\* C1 amended: after the scan, the table of every CONTROL-only model is in
\* control_tables, and it is in region_tables exactly when it is a seeded
\* region table or the db_table of another model whose modes contain REGION.
C1_ControlOnlyClassified ==
    ScanFinished =>
        \A i \in 1..Len(registry) :
            ControlOnly(registry[i]) =>
                LET t == registry[i].db_table IN
                /\ t \in Range(control_tables)
                /\ t \in Range(region_tables)
                     <=> (t \in Range(RegionSeed) \/ Carriers(t, REGION) # {})

\* a finished scan with a CONTROL-only model that stayed out of region_tables
\* and one whose table is in region_tables
C1_Witness ==
    /\ ScanFinished
    /\ \E i, j \in 1..Len(registry) :
        /\ ControlOnly(registry[i])
        /\ registry[i].db_table \notin Range(region_tables)
        /\ ControlOnly(registry[j])
        /\ registry[j].db_table \in Range(region_tables)

\* C2 as stated: after the scan, the table of every model without silo_limit
\* is in neither list.
C2_UnassignedInNeither ==
    ScanFinished =>
        \A i \in 1..Len(registry) :
            registry[i].silo_limit = None =>
                /\ registry[i].db_table \notin Range(control_tables)
                /\ registry[i].db_table \notin Range(region_tables)

\* C2 amended: after the scan, the table of a model without silo_limit is in
\* control_tables (region_tables) only when it is a seeded name of that list
\* or the db_table of another model whose modes contain CONTROL (REGION); the
\* model itself is reported with a warning.
C2_UnassignedNotAdded ==
    ScanFinished =>
        \A i \in 1..Len(registry) :
            registry[i].silo_limit = None =>
                LET t == registry[i].db_table IN
                /\ t \in Range(control_tables)
                     => (t \in Range(ControlSeed) \/ Carriers(t, CONTROL) # {})
                /\ t \in Range(region_tables)
                     => (t \in Range(RegionSeed) \/ Carriers(t, REGION) # {})
                /\ <<"> Could not find silo assignment for", t>> \in Range(stdout)

\* a finished scan with an unassigned model whose table is in neither list and
\* an unassigned model whose table is seeded
C2_Witness ==
    /\ ScanFinished
    /\ \E i, j \in 1..Len(registry) :
        /\ registry[i].silo_limit = None
        /\ registry[i].db_table \notin Range(control_tables) \cup Range(region_tables)
        /\ registry[j].silo_limit = None
        /\ registry[j].db_table \in Range(ControlSeed)

\* C3 as stated: after the scan, no table name occurs twice in control_tables
\* and none occurs twice in region_tables.
C3_Deduplicated ==
    ScanFinished => NoDuplicates(control_tables) /\ NoDuplicates(region_tables)

\* C3 amended: after the scan, each list starts with its duplicate-free seed,
\* and a table occurs in it once if it is seeded plus once per registered
\* model backed by it that carries the list's mode.
C3_OneEntryPerCarrier ==
    ScanFinished =>
        /\ NoDuplicates(ControlSeed) /\ NoDuplicates(RegionSeed)
        /\ SubSeq(control_tables, 1, Len(ControlSeed)) = ControlSeed
        /\ SubSeq(region_tables, 1, Len(RegionSeed)) = RegionSeed
        /\ \A t \in TableUniverse :
            /\ Count(control_tables, t)
                 = Count(ControlSeed, t) + Cardinality(Carriers(t, CONTROL))
            /\ Count(region_tables, t)
                 = Count(RegionSeed, t) + Cardinality(Carriers(t, REGION))

\* a finished scan with a table that occurs twice in control_tables
C3_Witness ==
    /\ ScanFinished
    /\ Len(registry) > 0
    /\ ~NoDuplicates(control_tables)

----
(* Properties of revise_organization_mappings (SpecRevise) *)

ReviseReturned == pc \notin {"start", "scan", "revise"}

\* the line revise_organization_mappings echoed
ReviseEcho ==
    CHOOSE line \in Range(stdout) : line[1] \in {">", "> No OrganizationMapping have been modified."}

\* C4: when settings.SENTRY_MONOLITH_REGION equals legacy_region_name, the call
\* leaves every OrganizationMapping row as it was and issues no update.
C4_SameRegionIsNoOp ==
    (ReviseReturned /\ SENTRY_MONOLITH_REGION = legacy_region_name) =>
        /\ org_mappings = om_before
        /\ updates = <<>>
        /\ ReviseEcho = <<"> No OrganizationMapping have been modified.">>

\* the call has returned with equal names and rows in the legacy region
C4_Witness ==
    /\ ReviseReturned
    /\ SENTRY_MONOLITH_REGION = legacy_region_name
    /\ Filter(om_before, legacy_region_name) # {}
    /\ \E i \in 1..Len(om_before) : om_before[i] # legacy_region_name

\* C5: when the names differ and N rows are in the legacy region, the call
\* moves exactly those N rows to settings.SENTRY_MONOLITH_REGION, leaves the
\* other rows unchanged and reports N.
C5_RewritesExactlyLegacyRows ==
    (ReviseReturned /\ SENTRY_MONOLITH_REGION # legacy_region_name) =>
        /\ Len(org_mappings) = Len(om_before)
        /\ \A i \in 1..Len(om_before) :
            org_mappings[i] = IF om_before[i] = legacy_region_name
                              THEN SENTRY_MONOLITH_REGION
                              ELSE om_before[i]
        /\ Len(ReviseEcho) = 6
        /\ ReviseEcho[2] = Count(om_before, legacy_region_name)
        /\ ReviseEcho[2] = Cardinality({i \in 1..Len(om_before) :
                                            org_mappings[i] # om_before[i]})

\* the call has returned with different names, after rewriting two rows and
\* leaving a row of another region
C5_Witness ==
    /\ ReviseReturned
    /\ SENTRY_MONOLITH_REGION # legacy_region_name
    /\ Count(om_before, legacy_region_name) = 2
    /\ \E i \in 1..Len(om_before) :
        om_before[i] \notin {legacy_region_name, SENTRY_MONOLITH_REGION}
    /\ org_mappings # om_before

----
(* Properties of the whole run (Spec) *)

IsPrefix(s, t) == Len(s) <= Len(t) /\ SubSeq(t, 1, Len(s)) = s

\* the table names that follow a -t in a command
DashT(command) == {command[i + 1] : i \in {k \in 1..(Len(command) - 1) : command[k] = "-t"}}

\* the fixed framework tables of a destination, lines 118-131
FrameworkTables(destination) == IF destination = "control" THEN ControlSeed ELSE RegionSeed

DumpCalls == {i \in 1..Len(calls) : calls[i].command[1] = "pg_dump"}

SplitCommands(do_reset) ==
    <<"pg_dump">> \o (IF do_reset THEN <<"dropdb", "createdb">> ELSE <<>>)
      \o <<"psql", "psql">>

\* the commands a whole run issues: <<name, destination>>
RunCommands ==
    [i \in 1..Len(SplitCommands(reset)) |-> <<SplitCommands(reset)[i], "control">>]
      \o [i \in 1..Len(SplitCommands(reset)) |-> <<SplitCommands(reset)[i], "region">>]

IssuedCommands == [i \in 1..Len(calls) |-> <<calls[i].command[1], calls[i].args.destination>>]

FailedCalls == {i \in 1..Len(calls) : calls[i].exit_code # 0}

\* C7: a non-zero exit code of a container step does not halt the run: the
\* steps issued are always the next ones of the fixed sequence, whatever
\* failed before, the run ends only after the last step of the region split,
\* and each failure is echoed to the operator.
C7_FailedStepDoesNotHalt ==
    /\ IsPrefix(IssuedCommands, RunCommands)
    /\ pc = "done" => IssuedCommands = RunCommands
    /\ pc # "done" => ENABLED Next
    /\ Count(stdout, <<"Container operation Failed!">>) = Cardinality(FailedCalls)

\* a finished run whose every step failed
C7_Witness ==
    /\ pc = "done"
    /\ reset
    /\ FailedCalls = 1..Len(RunCommands)

\* C8 as stated: the source database and its OrganizationMapping rows are
\* never modified by a run.
C8_SourceDatabaseUnmodified ==
    /\ dbs[database] = TableUniverse
    /\ database = DjangoDatabase => org_mappings = om_before

\* the driver steps of a whole run
RunSteps ==
    << <<"classify">>,
       <<"revise_organization_mappings", legacy_region_name>>,
       <<"split_database", control_tables, database, "control">>,
       <<"split_database", region_tables, database, "region">> >>

\* C9: the driver steps happen once each in the order classify, revise,
\* split control, split region; no command of the region split is issued
\* before the control split has returned; the destinations are "control" and
\* "region" and the source is --database.
C9_DriverOrder ==
    /\ IsPrefix(steps, RunSteps)
    /\ pc = "done" <=> steps = RunSteps
    /\ (updates # <<>> \/ calls # <<>>) => ScanFinished
    /\ calls # <<>> => ReviseReturned
    /\ \A i \in 1..Len(calls) :
        /\ calls[i].args.source = database
        /\ calls[i].args.destination \in {"control", "region"}
        /\ calls[i].args.destination = "region" => Len(steps) >= 3
        /\ calls[i].args.destination = "control" =>
             \A j \in 1..i : calls[j].args.destination = "control"

\* a finished run whose source database is named like a destination
C9_Witness ==
    /\ pc = "done"
    /\ database = "control"
    /\ Len(steps) = 4
    /\ \E i \in 1..Len(calls) : calls[i].args.destination = "region"

----
(* Properties of one split_database call (Spec) *)

\* the calls issued for a destination, in the order they were issued
RECURSIVE CallsFor(_, _)
CallsFor(cs, destination) ==
    IF cs = <<>> THEN <<>>
    ELSE IF Head(cs).args.destination = destination
         THEN <<Head(cs).command>> \o CallsFor(Tail(cs), destination)
         ELSE CallsFor(Tail(cs), destination)

\* the dump file of a destination
TablesFile(destination) == <<"/tmp/", destination, "-tables.sql">>

\* the five commands of a split with reset, up to the -t arguments of the dump
ResetCommands(tables, source, destination) ==
    << <<"pg_dump", "-U", "postgres", "-d", source, "--clean">> \o TableArgs(tables)
          \o <<">", TablesFile(destination)>>,
       <<"dropdb", "-U", "postgres", "--if-exists", destination>>,
       <<"createdb", "-U", "postgres", destination>>,
       <<"psql", "-U", "postgres", destination, "-c",
         "'CREATE EXTENSION IF NOT EXISTS citext'">>,
       <<"psql", "-U", "postgres", destination, "<", TablesFile(destination)>> >>

SplitReturned(destination) ==
    \E i \in 1..Len(steps) : steps[i][1] = "split_database" /\ steps[i][4] = destination

\* C11: with reset set, a split_database call issues pg_dump of the source
\* into /tmp/<destination>-tables.sql, dropdb --if-exists, createdb, the citext
\* command and the psql restore in this order; the restore reads the file the
\* dump of the same call wrote, and the two calls use different files.
C11_ResetCommandOrder ==
    reset =>
        /\ \A d \in {"control", "region"} :
            LET issued == CallsFor(calls, d)
                expected == ResetCommands(IF d = "control" THEN control_tables
                                          ELSE region_tables, database, d)
            IN /\ IsPrefix(issued, expected)
               /\ SplitReturned(d) =>
                    /\ issued = expected
                    /\ issued[5][Len(issued[5])] = issued[1][Len(issued[1])]
                    /\ issued[5][Len(issued[5]) - 1] = "<"
                    /\ issued[1][Len(issued[1]) - 1] = ">"
        /\ (SplitReturned("control") /\ SplitReturned("region")) =>
             LET c == CallsFor(calls, "control")
                 r == CallsFor(calls, "region")
             IN c[1][Len(c[1])] # r[1][Len(r[1])]

\* a finished run with reset whose ten commands were issued
C11_Witness ==
    /\ reset
    /\ pc = "done"
    /\ Len(CallsFor(calls, "control")) = 5
    /\ Len(CallsFor(calls, "region")) = 5
    /\ \E i \in 1..Len(calls) : calls[i].exit_code = 0 /\ calls[i].command[1] = "psql"

ResetCalls == {i \in 1..Len(calls) : calls[i].command[1] \in {"dropdb", "createdb"}}

\* C12: without reset a split_database call issues only pg_dump, the citext
\* command and the psql restore, and no existing database stops existing;
\* dropdb and createdb are issued exactly when reset is set, once per call,
\* and only against the destination.
C12_ResetOnlyDropsDestination ==
    /\ [](/\ \A i \in ResetCalls :
              /\ calls[i].args.reset
              /\ reset
              /\ calls[i].command[Len(calls[i].command)] = calls[i].args.destination
              /\ calls[i].args.destination \in {"control", "region"}
          /\ ~reset => \A i \in 1..Len(calls) :
                          /\ calls[i].command[1] \in {"pg_dump", "psql"}
                          /\ calls[i].command[1] = "psql" =>
                               \/ calls[i].command[Len(calls[i].command)]
                                    = "'CREATE EXTENSION IF NOT EXISTS citext'"
                               \/ calls[i].command[Len(calls[i].command) - 1] = "<"
          /\ \A d \in {"control", "region"} :
              (reset /\ SplitReturned(d)) =>
                  \A name \in {"dropdb", "createdb"} :
                      Cardinality({i \in ResetCalls :
                                      /\ calls[i].command[1] = name
                                      /\ calls[i].args.destination = d}) = 1)
    /\ [][~reset => \A n \in DbNames : dbs[n] # Absent => dbs'[n] # Absent]_vars

\* a finished run without reset over destinations that existed, and whose
\* restores succeeded
C12_Witness ==
    /\ ~reset
    /\ pc = "done"
    /\ Len(calls) = 6
    /\ \A d \in {"control", "region"} : dbs[d] # Absent
    /\ \A i \in 1..Len(calls) : calls[i].exit_code = 0

----
(* Properties of GridList.onKeyDown (SpecGrid) *)

\* C10 as stated: when keyDownHandler returns true for an event,
\* gridProps.onKeyDown is not called for it.
C10_InterceptedEventStops ==
    \A i \in 1..Len(key_events) :
        key_events[i].continueCallback = "true" =>
            key_events[i].gridOnKeyDown = "not called"

\* C13: a key press of Escape is never forwarded to gridProps.onKeyDown,
\* whatever keyDownHandler returned.
C13_EscapeNotForwarded ==
    \A i \in 1..Len(key_events) :
        key_events[i].key = "Escape" => key_events[i].gridOnKeyDown = "not called"

\* an Escape press that keyDownHandler answered with true while the grid list
\* had a handler, and another key that was forwarded
C13_Witness ==
    \E i, j \in 1..Len(key_events) :
        /\ key_events[i].key = "Escape"
        /\ key_events[i].continueCallback = "true"
        /\ key_events[i].gridHandler
        /\ key_events[j].gridOnKeyDown = "called"

====
